---- MODULE Spec2Model ----
(***************************************************************************)
(* Model of src/app/page.tsx: the HomePage component of the in-browser     *)
(* video upscaler.  The component is a React function component; its       *)
(* handlers and effects close over the values of the render that created   *)
(* them.  The model keeps two copies of the hook state:                    *)
(*   st        the hook state with every setState call made so far applied *)
(*   rendered  the hook state of the last committed render, i.e. the       *)
(*             values the closures (handleFile, upscale, the effects'      *)
(*             cleanups) and the button's disabled attribute see.          *)
(* A handler of a discrete DOM event (file input change, button click) is  *)
(* flushed synchronously, so its action ends with the commit (of every     *)
(* pending update).  setState calls made from an effect or from the        *)
(* continuation of an await are committed by a later task of the event     *)
(* loop (action Render); which of that task and another pending task (a    *)
(* promise continuation, a DOM event) runs first is the event loop's       *)
(* choice.  In a browser the re-render scheduled by the init effect's      *)
(* setLoadingCore(true) is committed before the network fetches of the     *)
(* engine assets can complete; the model also keeps the other order.       *)
(* Object URLs, engine instances and runs are numbered in creation order.  *)
(***************************************************************************)
EXTENDS Integers, Sequences, FiniteSets, TLC

\* ---------------------------------------------------------------- bounds
MaxRuns == 2
MaxUrls == 4
MaxLoads == 2

\* ------------------------------------------------------------- constants
Null == 0

\* page.tsx:108  const maxBytes = 300 * 1024 * 1024
maxBytes == 300 * 1024 * 1024

\* the files the user can pick, and File.size of each
Files == {1, 2}
FileSize(f) == IF f = 1 THEN 300 * 1024 * 1024 ELSE 300 * 1024 * 1024 + 1

\* status texts
StPreparing == "Preparing..."
StUpscaling == "Upscaling..."
StDone == "Done"
StLoadFailed == "Failed to load ffmpeg core"
StTooLarge == "File too large. Please use a file under 300MB."
StFallback == "Upscaling failed"
LogMessage == "frame= 1"

\* messages of the exceptions the engine can throw ("" : no message)
ErrMessages == {"boom", ""}

\* progress ratios delivered by the engine, in thousandths
Ratios == {4, 5, 1500}

\* Math.round(progress * 100), progress = r / 1000
RoundPercent(r) == (r * 100 + 500) \div 1000

VARIABLES
  mounted,      \* "pre" | "mounted" | "unmounted"
  st,           \* hook state, all setState calls applied
  rendered,     \* hook state of the last committed render
  loads,        \* one entry per constructed FFmpeg instance / init() run
  effectLoad,   \* the load started by the installed init effect (0: none)
  runs,         \* one entry per accepted call of upscale
  urls,         \* object URLs created so far
  revoked,      \* object URLs on which revokeObjectURL was called
  fsOut,        \* run that wrote "output.mp4" in the engine's FS (0: absent)
  prevEv,       \* last progress event of the current exec
  lastOps,      \* createObjectURL / revokeObjectURL calls of the last step
  lastCall,     \* engine call issued by the last step ("" : none)
  video         \* videoWidth, videoHeight of the input player (0: unknown)

vars == <<mounted, st, rendered, loads, effectLoad, runs, urls, revoked,
          fsOut, prevEv, lastOps, lastCall, video>>

Range(s) == {s[i] : i \in DOMAIN s}

NoEv == [run |-> 0, ratio |-> 0, pct |-> 0]

\* inputVideoRef.current?.videoWidth is 0 or undefined
NoVideo == [w |-> 0, h |-> 0]

\* useState initial values
InitialState ==
  [ffmpeg |-> Null, loadingCore |-> FALSE, file |-> Null, inputUrl |-> Null,
   progress |-> 0, status |-> "", outputUrl |-> Null, processing |-> FALSE,
   scale |-> "2x", algo |-> "lanczos", crf |-> 20, preset |-> "medium"]

Init ==
  /\ mounted = "pre"
  /\ st = InitialState
  /\ rendered = InitialState
  /\ loads = <<>>
  /\ effectLoad = 0
  /\ runs = <<>>
  /\ urls = <<>>
  /\ revoked = {}
  /\ fsOut = 0
  /\ prevEv = NoEv
  /\ lastOps = <<>>
  /\ lastCall = ""
  /\ video = NoVideo

\* a setState call on an unmounted component is ignored
SetState(s) == IF mounted = "mounted" THEN s ELSE st

\* ------------------------------------------------------ the init effect
\* mutation of InitReturnsEarly: the guard is missing
InitNeverReturnsEarly(s) == FALSE

\* if (ffmpeg || loadingCore) return;
InitReturnsEarly(s) == s.ffmpeg # Null \/ s.loadingCore

\* init(): setLoadingCore(true); new FFmpeg(); ...; await instance.load(..)
InitEffect(s, lds) ==
  IF InitReturnsEarly(s)
  THEN [st |-> s, loads |-> lds, eff |-> 0]
  ELSE [st |-> [s EXCEPT !.loadingCore = TRUE],
        loads |-> Append(lds, [pc |-> "loading", cancelled |-> FALSE]),
        eff |-> Len(lds) + 1]

\* return () => { cancelled = true; }
InitCleanup(lds, eff) ==
  IF eff # 0 THEN [lds EXCEPT ![eff].cancelled = TRUE] ELSE lds

InitDepsChanged(r, s) ==
  r.ffmpeg # s.ffmpeg \/ r.loadingCore # s.loadingCore

\* ---------------------------------------------------- the revoke effect
UrlDepsChanged(r, s) ==
  r.inputUrl # s.inputUrl \/ r.outputUrl # s.outputUrl

\* cleanup: if (inputUrl) revoke(inputUrl); if (outputUrl) revoke(outputUrl)
RevokeCleanup(r) ==
  (IF r.inputUrl # Null THEN <<r.inputUrl>> ELSE <<>>) \o
  (IF r.outputUrl # Null THEN <<r.outputUrl>> ELSE <<>>)

RevokeOps(hs) == [i \in 1..Len(hs) |-> [op |-> "revoke", h |-> hs[i]]]

\* ------------------------------------------------------------ the commit
\* React commits state s: cleanups of the effects whose dependencies
\* changed run with the previous render's values, then the effects run.
WouldStartLoad(s) == InitDepsChanged(rendered, s) /\ ~InitReturnsEarly(s)

CanCommit(s) == WouldStartLoad(s) => Len(loads) < MaxLoads

Commit(s, rev, ops) ==
  LET rl == IF UrlDepsChanged(rendered, s) THEN RevokeCleanup(rendered)
            ELSE <<>>
      ic == InitDepsChanged(rendered, s)
      ie == IF ic THEN InitEffect(s, InitCleanup(loads, effectLoad))
            ELSE [st |-> s, loads |-> loads, eff |-> effectLoad]
  IN /\ rendered' = s
     /\ st' = ie.st
     /\ loads' = ie.loads
     /\ effectLoad' = ie.eff
     /\ revoked' = rev \cup Range(rl)
     /\ lastOps' = ops \o RevokeOps(rl)

\* ---------------------------------------------------------------- mount
Mount ==
  /\ mounted = "pre"
  /\ mounted' = "mounted"
  /\ LET ie == InitEffect(st, loads)
     IN /\ st' = ie.st
        /\ loads' = ie.loads
        /\ effectLoad' = ie.eff
  /\ rendered' = st
  /\ lastOps' = <<>>
  /\ lastCall' = ""
  /\ UNCHANGED <<runs, urls, revoked, fsOut, prevEv, video>>

\* the scheduled re-render after setState calls made outside a DOM event
Render ==
  /\ mounted = "mounted"
  /\ st # rendered
  /\ CanCommit(st)
  /\ Commit(st, revoked, <<>>)
  /\ lastCall' = ""
  /\ UNCHANGED <<mounted, runs, urls, fsOut, prevEv, video>>

\* unmount: both effects' cleanups run
Unmount ==
  /\ mounted = "mounted"
  /\ mounted' = "unmounted"
  /\ loads' = InitCleanup(loads, effectLoad)
  /\ revoked' = revoked \cup Range(RevokeCleanup(rendered))
  /\ lastOps' = RevokeOps(RevokeCleanup(rendered))
  /\ lastCall' = ""
  /\ UNCHANGED <<st, rendered, effectLoad, runs, urls, fsOut, prevEv, video>>

\* ------------------------------------------- completion of instance.load
\* if (!cancelled) setFfmpeg(instance); finally if (!cancelled)
\* setLoadingCore(false)
LoadOk(i) ==
  /\ loads[i].pc = "loading"
  /\ loads' = [loads EXCEPT ![i].pc = "loaded"]
  /\ st' = IF loads[i].cancelled THEN st
           ELSE SetState([st EXCEPT !.ffmpeg = i, !.loadingCore = FALSE])
  /\ lastOps' = <<>>
  /\ lastCall' = ""
  /\ UNCHANGED <<mounted, rendered, effectLoad, runs, urls, revoked, fsOut,
                 prevEv, video>>

\* catch: if (!cancelled) setStatus("Failed to load ffmpeg core"); finally
LoadFail(i) ==
  /\ loads[i].pc = "loading"
  /\ loads' = [loads EXCEPT ![i].pc = "failed"]
  /\ st' = IF loads[i].cancelled THEN st
           ELSE SetState([st EXCEPT !.status = StLoadFailed,
                                    !.loadingCore = FALSE])
  /\ lastOps' = <<>>
  /\ lastCall' = ""
  /\ UNCHANGED <<mounted, rendered, effectLoad, runs, urls, revoked, fsOut,
                 prevEv, video>>

\* ------------------------------------------------------------ handleFile
Active(run) == run.pc \in {"write", "exec", "read"}

\* mutation of handleFileRevoke: the previous URL is not revoked
handleFileRevokesNothing(old) == <<>>

\* if (inputUrl) URL.revokeObjectURL(inputUrl);
handleFileRevoke(old) ==
  IF old # Null THEN <<[op |-> "revoke", h |-> old]>> ELSE <<>>

\* onChange of the file input; f = Null when no file is chosen
\* the same, with the progress and the status left as they were
handleFileKeepsProgress(s, f, new) ==
  [s EXCEPT !.outputUrl = Null, !.file = f,
            !.inputUrl = IF f # Null THEN new ELSE Null]

\* the setters of handleFile: setOutputUrl(null); setProgress(0);
\* setStatus(""); setFile(f); setInputUrl(f ? URL.createObjectURL(f) : null)
handleFileState(s, f, new) ==
  [s EXCEPT !.outputUrl = Null, !.progress = 0, !.status = "",
            !.file = f,
            !.inputUrl = IF f # Null THEN new ELSE Null]

handleFile(f) ==
  /\ mounted = "mounted"
  /\ f # Null => Len(urls) < MaxUrls
  /\ LET old == rendered.inputUrl
         new == Len(urls) + 1
         s == handleFileState(st, f, new)
         rv == handleFileRevoke(old)
         ops == rv \o (IF f # Null THEN <<[op |-> "create", h |-> new]>>
                       ELSE <<>>)
     IN /\ CanCommit(s)
        /\ urls' = IF f # Null
                   THEN Append(urls, [kind |-> "in", stale |-> FALSE])
                   ELSE urls
        /\ Commit(s, revoked \cup {rv[q].h : q \in DOMAIN rv}, ops)
  \* bookkeeping: the runs in flight were started before this selection
  /\ runs' = [i \in DOMAIN runs |->
                IF Active(runs[i]) THEN [runs[i] EXCEPT !.superseded = TRUE]
                ELSE runs[i]]
  /\ lastCall' = ""
  \* the input player gets a new src (or is removed): its size is unknown
  /\ video' = NoVideo
  /\ UNCHANGED <<mounted, fsOut, prevEv>>

\* --------------------------------------------------------------- upscale
\* mutation of disabled: the running flag is left out
disabledIgnoringProcessing(r) ==
  r.ffmpeg = Null \/ r.loadingCore \/ r.file = Null

\* const disabled = !ffmpeg || loadingCore || !file || processing
disabled(r) ==
  r.ffmpeg = Null \/ r.loadingCore \/ r.file = Null \/ r.processing

\* if (!ffmpeg || !file) return;
upscaleReturnsEarly(r) == r.ffmpeg = Null \/ r.file = Null

\* mutation of TooLarge: >= instead of >
TooLargeOrEqual(f) == FileSize(f) >= maxBytes

\* if (file.size > maxBytes) throw
TooLarge(f) == FileSize(f) > maxBytes

\* buildScaleFilter(w, h) of the render r: `scale=<w>:<h>:flags=<algo>`;
\* the parameters w and h are not used
buildScaleFilter(r, w, h) ==
  CASE r.scale = "2x" -> [w |-> "iw*2", h |-> "ih*2", flags |-> r.algo]
    [] r.scale = "3x" -> [w |-> "iw*3", h |-> "ih*3", flags |-> r.algo]
    [] r.scale = "4x" -> [w |-> "iw*4", h |-> "ih*4", flags |-> r.algo]
    [] r.scale = "720p" ->
         [w |-> "trunc(oh*a/2)*2", h |-> "720", flags |-> r.algo]
    [] r.scale = "1080p" ->
         [w |-> "trunc(oh*a/2)*2", h |-> "1080", flags |-> r.algo]
    [] r.scale = "4k" -> [w |-> "3840", h |-> "2160", flags |-> r.algo]
    [] OTHER -> [w |-> "iw*2", h |-> "ih*2", flags |-> r.algo]

\* no filter was built (upscale threw before line 120)
NoFilter == [w |-> "", h |-> "", flags |-> ""]

\* let inW = 0, inH = 0; if (inputVideoRef.current?.videoWidth) {...}
inW == IF video.w # 0 THEN video.w ELSE 0
inH == IF video.w # 0 THEN video.h ELSE 0

\* String(crf), for the values of the model
CrfString(c) == CASE c = 16 -> "16" [] c = 20 -> "20" [] c = 30 -> "30"

\* const args = ["-i", "input", "-vf", scaleFilter, ...] of run
execArgs(run) ==
  <<"-i", "input", "-vf", run.vf, "-c:v", "libx264", "-preset", run.preset,
    "-crf", CrfString(run.crf), "-c:a", "copy", "-movflags", "+faststart",
    "output.mp4">>

\* a call of upscale: its outcome so far and the values that go into
\* its argument list (none when it threw before building the filter)
NewRun(pc, r, vf) ==
  [pc |-> pc, superseded |-> FALSE, err |-> "", vf |-> vf,
   preset |-> IF vf = NoFilter THEN "" ELSE r.preset,
   crf |-> IF vf = NoFilter THEN 0 ELSE r.crf]

\* mutation of upscaleBegin: the running flag is not set
upscaleBeginWithoutFlag(s) ==
  [s EXCEPT !.progress = 0, !.status = StPreparing]

\* setProcessing(true); setProgress(0); setStatus("Preparing...")
upscaleBegin(s) ==
  [s EXCEPT !.processing = TRUE, !.progress = 0, !.status = StPreparing]

\* mutation of upscaleFinally: the running flag is not cleared
upscaleWithoutFinally(s) == s

\* finally { setProcessing(false); }
upscaleFinally(s) == [s EXCEPT !.processing = FALSE]

\* catch (err) { setStatus(err?.message || "Upscaling failed"); }
CatchStatus(m) == IF m # "" THEN m ELSE StFallback

upscaleCatch(s, m) == [s EXCEPT !.status = CatchStatus(m)]

\* click on the button (possible only while it is not disabled); the
\* synchronous part of upscale runs up to the first await, where
\* ffmpeg.writeFile("input", await fetchFile(file)) is under way
ClickStart ==
  /\ mounted = "mounted"
  /\ ~disabled(rendered)
  /\ Len(runs) < MaxRuns
  /\ ~upscaleReturnsEarly(rendered)
  /\ LET big == TooLarge(rendered.file)
         s == IF big
              THEN upscaleFinally(upscaleCatch(upscaleBegin(st), StTooLarge))
              ELSE upscaleBegin(st)
     IN /\ CanCommit(s)
        /\ Commit(s, revoked, <<>>)
        /\ runs' = Append(runs,
                     IF big THEN NewRun("rejected", rendered, NoFilter)
                     ELSE NewRun("write", rendered,
                                 buildScaleFilter(rendered, inW, inH)))
        /\ lastCall' = IF big THEN "" ELSE "writeFile"
  /\ UNCHANGED <<mounted, urls, fsOut, prevEv, video>>

\* await ffmpeg.writeFile(..) resolves; setStatus("Upscaling...");
\* ffmpeg.exec(args) is called
WriteOk(i) ==
  /\ runs[i].pc = "write"
  /\ runs' = [runs EXCEPT ![i].pc = "exec"]
  /\ st' = SetState([st EXCEPT !.status = StUpscaling])
  /\ prevEv' = NoEv
  /\ lastOps' = <<>>
  /\ lastCall' = "exec"
  /\ UNCHANGED <<mounted, rendered, loads, effectLoad, urls, revoked, fsOut,
                 video>>

\* instance.on("progress"): setProgress(Math.round(progress * 100))
ProgressEvent(i, r) ==
  /\ runs[i].pc = "exec"
  /\ st' = SetState([st EXCEPT !.progress = RoundPercent(r)])
  /\ prevEv' = [run |-> i, ratio |-> r, pct |-> RoundPercent(r)]
  /\ lastOps' = <<>>
  /\ lastCall' = ""
  /\ UNCHANGED <<mounted, rendered, loads, effectLoad, runs, urls, revoked,
                 fsOut, video>>

\* instance.on("log"): setStatus(message)
LogEvent(i) ==
  /\ runs[i].pc = "exec"
  /\ st' = SetState([st EXCEPT !.status = LogMessage])
  /\ lastOps' = <<>>
  /\ lastCall' = ""
  /\ UNCHANGED <<mounted, rendered, loads, effectLoad, runs, urls, revoked,
                 fsOut, prevEv, video>>

\* await ffmpeg.exec(args) resolves; the exit status is not looked at.
\* ok: the engine wrote output.mp4; ~ok: it exited with a non-zero status
\* and wrote nothing.  ffmpeg.readFile("output.mp4") is called.
ExecReturns(i, ok) ==
  /\ runs[i].pc = "exec"
  /\ runs' = [runs EXCEPT ![i].pc = "read"]
  /\ fsOut' = IF ok THEN i ELSE fsOut
  /\ prevEv' = NoEv
  /\ lastOps' = <<>>
  /\ lastCall' = "readFile"
  /\ UNCHANGED <<mounted, st, rendered, loads, effectLoad, urls, revoked, video>>

\* await ffmpeg.readFile("output.mp4") resolves: the blob, its URL,
\* setOutputUrl(url); setStatus("Done"); finally setProcessing(false)
ReadOk(i) ==
  /\ runs[i].pc = "read"
  /\ fsOut # 0
  /\ Len(urls) < MaxUrls
  /\ LET new == Len(urls) + 1
     IN /\ urls' = Append(urls, [kind |-> "out",
                                 stale |-> runs[i].superseded])
        /\ st' = SetState(upscaleFinally(
                    [st EXCEPT !.outputUrl = new, !.status = StDone]))
        /\ lastOps' = <<[op |-> "create", h |-> new]>>
  /\ runs' = [runs EXCEPT ![i].pc = "done", ![i].superseded = FALSE]
  /\ lastCall' = ""
  /\ UNCHANGED <<mounted, rendered, loads, effectLoad, revoked, fsOut,
                 prevEv, video>>

\* the awaited engine call rejects with an exception whose message is m
\* (readFile of a missing file rejects with a message):
\* catch: setStatus(err?.message || "Upscaling failed"); finally
\* setProcessing(false)
RunThrows(i, m) ==
  /\ Active(runs[i])
  /\ (runs[i].pc = "read" /\ fsOut = 0) => m # ""
  /\ runs' = [runs EXCEPT ![i].pc = "failed", ![i].superseded = FALSE,
                          ![i].err = m]
  /\ st' = SetState(upscaleFinally(upscaleCatch(st, m)))
  /\ prevEv' = NoEv
  /\ lastOps' = <<>>
  /\ lastCall' = ""
  /\ UNCHANGED <<mounted, rendered, loads, effectLoad, urls, revoked, fsOut,
                 video>>

Next ==
  \/ Mount
  \/ Render
  \/ Unmount
  \/ \E i \in DOMAIN loads : LoadOk(i)
  \/ \E i \in DOMAIN loads : LoadFail(i)
  \/ \E f \in Files \cup {Null} : handleFile(f)
  \/ ClickStart
  \/ \E i \in DOMAIN runs : WriteOk(i)
  \/ \E i \in DOMAIN runs, r \in Ratios : ProgressEvent(i, r)
  \/ \E i \in DOMAIN runs : LogEvent(i)
  \/ \E i \in DOMAIN runs, ok \in BOOLEAN : ExecReturns(i, ok)
  \/ \E i \in DOMAIN runs : ReadOk(i)
  \/ \E i \in DOMAIN runs, m \in ErrMessages : RunThrows(i, m)

Spec == Init /\ [][Next]_vars

\* ------------------------------------------ the parameter controls
\* the values of the four controls used in the model
ScalePresets == {"2x", "3x", "4x", "720p", "1080p", "4k"}
Algos == {"lanczos", "bicubic", "bilinear"}
Crfs == {20, 30}
Presets == {"medium", "ultrafast"}

\* videoWidth x videoHeight of the videos whose metadata gets loaded
VideoSizes == {[w |-> 1280, h |-> 720], [w |-> 1001, h |-> 720],
               [w |-> 700, h |-> 500]}

\* onChange of a control: the setter, then the synchronous commit
SetParam(s) ==
  /\ mounted = "mounted"
  /\ s # st
  /\ CanCommit(s)
  /\ Commit(s, revoked, <<>>)
  /\ lastCall' = ""
  /\ UNCHANGED <<mounted, runs, urls, fsOut, prevEv, video>>

setScale(v) == SetParam([st EXCEPT !.scale = v])
setAlgo(v) == SetParam([st EXCEPT !.algo = v])
setCrf(v) == SetParam([st EXCEPT !.crf = v])
setPreset(v) == SetParam([st EXCEPT !.preset = v])

\* the input player ({inputUrl && <video ref={inputVideoRef} ...>}) has
\* loaded the metadata of its source
LoadedMetadata(d) ==
  /\ mounted = "mounted"
  /\ rendered.inputUrl # Null
  /\ video = NoVideo
  /\ video' = d
  /\ lastOps' = <<>>
  /\ lastCall' = ""
  /\ UNCHANGED <<mounted, st, rendered, loads, effectLoad, runs, urls,
                 revoked, fsOut, prevEv>>

\* The controls only feed the argument list that upscale hands to exec.
\* Spec keeps them at their initial values; SpecParams exercises them,
\* together with file selection and the start of a run.
NextParams ==
  \/ Mount
  \/ Render
  \/ \E i \in DOMAIN loads : LoadOk(i)
  \/ \E f \in Files \cup {Null} : handleFile(f)
  \/ \E v \in ScalePresets : setScale(v)
  \/ \E v \in Algos : setAlgo(v)
  \/ \E v \in Crfs : setCrf(v)
  \/ \E v \in Presets : setPreset(v)
  \/ \E d \in VideoSizes : LoadedMetadata(d)
  \/ ClickStart

SpecParams == Init /\ [][NextParams]_vars

\* SpecSelect lets a selection fall into any moment of a run that is
\* showing progress, with each control at its initial or one other value.
NextSelect ==
  \/ Mount
  \/ Render
  \/ \E i \in DOMAIN loads : LoadOk(i)
  \/ \E f \in Files \cup {Null} : handleFile(f)
  \/ setScale("4k")
  \/ setAlgo("bicubic")
  \/ setCrf(30)
  \/ setPreset("ultrafast")
  \/ ClickStart
  \/ \E i \in DOMAIN runs : WriteOk(i)
  \/ \E i \in DOMAIN runs, r \in Ratios : ProgressEvent(i, r)

SpecSelect == Init /\ [][NextSelect]_vars

ActiveRuns == {i \in DOMAIN runs : Active(runs[i])}

TypeOK ==
  /\ mounted \in {"pre", "mounted", "unmounted"}
  /\ Len(loads) <= MaxLoads
  /\ Len(runs) <= MaxRuns
  /\ Len(urls) <= MaxUrls
  /\ revoked \subseteq DOMAIN urls

\* ------------------------------------------------------------------ C1
\* a step in which upscale passes its guards and reaches the engine
StartsRun ==
  /\ Len(runs') = Len(runs) + 1
  /\ Active(runs'[Len(runs')])

\* the engine is ready, a file is selected, no run is active and the file
\* is not larger than 300 MiB, in the render the click handler belongs to
StartAllowed ==
  /\ rendered.ffmpeg # Null
  /\ rendered.file # Null
  /\ ActiveRuns = {}
  /\ ~st.processing /\ ~rendered.processing
  /\ FileSize(rendered.file) <= 300 * 1024 * 1024

\* C1: a run is started only when the engine is ready, a file is selected,
\* no run is active and the file is at most 300 MiB; the first engine call
\* (writeFile) is made only by such a start, every other engine call only
\* by the one active run; at most one run is active at a time.
C1_StartGuards ==
  /\ [](Cardinality(ActiveRuns) <= 1)
  /\ [][StartsRun => StartAllowed]_vars
  /\ [][lastCall' = "writeFile" => StartsRun]_vars
  /\ [][lastCall' \in {"exec", "readFile"} =>
          Cardinality(ActiveRuns) = 1 /\ ActiveRuns' = ActiveRuns]_vars

\* a start was rejected for size, then another one reached the engine
C1_Witness ==
  /\ Len(runs) = 2
  /\ runs[1].pc = "rejected"
  /\ runs[2].pc = "write"
  /\ lastCall = "writeFile"
  /\ rendered.processing

\* ------------------------------------------------------------------ C2
\* C2: once the asset fetches and instance.load have succeeded (and the
\* component is mounted) the ready state is published: the engine handle
\* is that instance and loadingCore is false.
C2_ReadyPublished ==
  \A i \in DOMAIN loads :
    (mounted = "mounted" /\ loads[i].pc = "loaded") =>
      (st.ffmpeg = i /\ ~st.loadingCore)

\* ------------------------------------------------------------------ C8
LoadFails(i) == loads[i].pc = "loading" /\ loads'[i].pc = "failed"

\* C8: when a fetch or the load fails (component mounted), the failure
\* message becomes the status, the engine handle stays null and
\* loadingCore is cleared.
C8_LoadFailurePublished ==
  [][\A i \in DOMAIN loads :
       (mounted = "mounted" /\ LoadFails(i)) =>
         /\ st'.status = "Failed to load ffmpeg core"
         /\ st'.ffmpeg = Null
         /\ ~st'.loadingCore]_vars

\* ------------------------------------------------------------------ C9
LoadsInFlight == {i \in DOMAIN loads : loads[i].pc = "loading"}

\* C9: at most one engine load is in flight; while the engine is ready,
\* the loading flag is set or a load is in flight, no run of the effect
\* constructs another engine.
C9_InitIdempotent ==
  /\ [](Cardinality(LoadsInFlight) <= 1)
  /\ [][(st.ffmpeg # Null \/ st.loadingCore \/ LoadsInFlight # {}) =>
          Len(loads') = Len(loads)]_vars

\* the effect ran again after the engine became ready, and built nothing
C9_Witness ==
  /\ rendered.ffmpeg # Null
  /\ effectLoad = 0
  /\ Len(loads) = 1

\* ------------------------------------------------------- object URLs
LiveUrls(k) == {h \in DOMAIN urls : urls[h].kind = k /\ h \notin revoked}

\* the handles revoked by the first p-1 createObjectURL/revokeObjectURL
\* calls of the step just taken
RevokedBefore(p) ==
  {lastOps'[q].h : q \in {x \in 1..(p - 1) : lastOps'[x].op = "revoke"}}

\* every handle created by the step just taken was created after all
\* earlier handles of its kind had been revoked
CreatedAfterRelease ==
  \A p \in DOMAIN lastOps' :
    lastOps'[p].op = "create" =>
      \A h \in DOMAIN urls :
        urls[h].kind = urls'[lastOps'[p].h].kind =>
          h \in revoked \cup RevokedBefore(p)

\* ------------------------------------------------------------------ C3
\* C3: at most one input handle and at most one output handle are live in
\* every state, and a handle is created only after the prior handle of
\* its kind has been revoked.
C3_OneLiveHandlePerKind ==
  /\ [](Cardinality(LiveUrls("in")) <= 1 /\ Cardinality(LiveUrls("out")) <= 1)
  /\ [][CreatedAfterRelease]_vars

\* ------------------------------------------------------------------ C4
RunFails(i) == Active(runs[i]) /\ runs'[i].pc = "failed"

\* C4: when a run fails with an exception (component mounted), the status
\* is the exception's message or else the fallback, the running flag is
\* cleared and no output handle is held.
C4_FailureLeavesNoOutput ==
  [][\A i \in DOMAIN runs :
       (mounted = "mounted" /\ RunFails(i)) =>
         /\ st'.status = IF runs'[i].err # "" THEN runs'[i].err
                         ELSE "Upscaling failed"
         /\ ~st'.processing
         /\ st'.outputUrl = Null]_vars

\* ------------------------------------------------------------------ C5
\* C5: the output handle held as current was never produced by a run that
\* was started before the latest file selection.
C5_SelectionInvalidatesResult ==
  (mounted = "mounted" /\ st.outputUrl # Null) => ~urls[st.outputUrl].stale

\* ------------------------------------------------------------------ C6
\* a commit that publishes a newly produced output handle
PublishesOutput ==
  /\ mounted = "mounted"
  /\ rendered'.outputUrl # Null
  /\ rendered'.outputUrl # rendered.outputUrl

\* C6: when a successful run's result is published, its output handle is
\* the only live output handle: every earlier one has been revoked.
C6_OneOutputAfterSuccess ==
  [][PublishesOutput =>
       {h \in DOMAIN urls' : urls'[h].kind = "out" /\ h \notin revoked'}
         = {rendered'.outputUrl}]_vars

\* ------------------------------------------------------------------ C7
\* a step of handleFile that selects a file
SelectsFile ==
  /\ Len(urls') = Len(urls) + 1
  /\ urls'[Len(urls')].kind = "in"

\* positions, among the step's URL calls, of the revocations of input
\* handles, and the position of the creation
InputRevocations ==
  {p \in DOMAIN lastOps' :
     lastOps'[p].op = "revoke" /\ urls[lastOps'[p].h].kind = "in"}

CreationAt == CHOOSE p \in DOMAIN lastOps' : lastOps'[p].op = "create"

\* C7 as stated: a selection with a prior input handle makes exactly one
\* revocation, of that handle, before the creation of the new handle; a
\* selection without a prior handle makes no revocation.
C7_ExactlyOneRevocation ==
  [][SelectsFile =>
       IF st.inputUrl # Null
       THEN /\ Cardinality(InputRevocations) = 1
            /\ \A p \in InputRevocations :
                 lastOps'[p].h = st.inputUrl /\ p < CreationAt
       ELSE InputRevocations = {}]_vars

\* C7 amended: a selection with a prior input handle revokes that handle
\* and no other input handle, and the handle is revoked before the new
\* one is created (revokeObjectURL may be called on it more than once); a
\* selection without a prior handle revokes no input handle.
C7_PriorInputRevokedFirst ==
  [][SelectsFile =>
       /\ {lastOps'[p].h : p \in InputRevocations} = {st.inputUrl} \ {Null}
       /\ st.inputUrl # Null =>
            st.inputUrl \in revoked \cup RevokedBefore(CreationAt)]_vars

\* a second file was selected: the first handle was revoked, then the
\* second created
C7_Witness ==
  /\ Len(lastOps) >= 2
  /\ lastOps[1] = [op |-> "revoke", h |-> 1]
  /\ lastOps[2].op = "create"
  /\ urls[lastOps[2].h].kind = "in"
  /\ st.inputUrl = lastOps[2].h

\* ----------------------------------------------------------------- C10
\* a progress event that follows another one of the same exec
NextProgressEvent ==
  /\ prevEv.run # 0
  /\ prevEv'.run = prevEv.run
  /\ runs[prevEv.run].pc = "exec" /\ runs'[prevEv.run].pc = "exec"
  /\ st'.progress # st.progress \/ prevEv' # prevEv

\* C10: the percentage is an integer in 0..100 in every state, and within
\* one run a progress event whose ratio is not below the previous event's
\* sets a percentage that is not below the previous event's.
C10_ProgressInRange ==
  /\ [](st.progress \in 0..100)
  /\ [][(NextProgressEvent /\ prevEv'.ratio >= prevEv.ratio) =>
          prevEv'.pct >= prevEv.pct]_vars

\* ----------------------------------------------------------------- C11
FailedRuns == {i \in DOMAIN runs : runs[i].pc \in {"failed", "rejected"}}

\* the page shows the committed state, the engine is ready and a file of
\* acceptable size is selected (and the model's bound allows another run)
ReadyForRun ==
  /\ mounted = "mounted"
  /\ st = rendered
  /\ st.ffmpeg # Null
  /\ st.file # Null
  /\ FileSize(st.file) <= 300 * 1024 * 1024
  /\ Len(runs) < MaxRuns

\* C11: once no run is in flight the running flag is cleared, whatever
\* way the runs ended; and after a failed run a start with the engine
\* ready and an acceptable file selected is accepted and reaches the engine.
C11_FailureNotFatal ==
  /\ (mounted = "mounted" /\ ActiveRuns = {}) => ~st.processing
  /\ (FailedRuns # {} /\ ActiveRuns = {} /\ ReadyForRun) =>
       ENABLED (ClickStart /\ StartsRun /\ lastCall' = "writeFile")

\* a run failed with an exception and the next start reached the engine
C11_Witness ==
  /\ Len(runs) = 2
  /\ runs[1].pc = "failed"
  /\ runs[2].pc = "write"
  /\ lastCall = "writeFile"

\* ----------------------------------------------------------------- C12
\* C12: after the component is unmounted no created object URL is live.
C12_NoLiveHandleAfterUnmount ==
  mounted = "unmounted" => DOMAIN urls \subseteq revoked

\* ----------------------------------------------------------------- C14
\* a step of ClickStart: upscale ran and recorded its outcome
UpscaleRan == Len(runs') = Len(runs) + 1

\* C14: upscale rejects the selected file exactly when its size exceeds
\* 300 * 1024 * 1024 bytes; a rejected start leaves the size-limit message
\* as status, makes no engine call, creates no object URL and leaves the
\* running flag cleared.
C14_SizeGuard ==
  [][UpscaleRan =>
       LET run == runs'[Len(runs')]
       IN /\ (run.pc = "rejected") <=>
               (FileSize(rendered.file) > 300 * 1024 * 1024)
          /\ run.pc = "rejected" =>
               /\ st'.status = "File too large. Please use a file under 300MB."
               /\ rendered'.status = st'.status
               /\ lastCall' = ""
               /\ urls' = urls
               /\ ~st'.processing /\ ~rendered'.processing]_vars

\* a file of exactly 300 MiB was processed, then a larger one was rejected
C14_Witness ==
  /\ Len(runs) = 2
  /\ runs[1].pc = "done"
  /\ runs[2].pc = "rejected"
  /\ st.file = 2
  /\ st.status = StTooLarge

\* ----------------------------------------------------------------- C18
\* C18: the URLs the two players are bound to in the committed render are
\* not revoked.
C18_NoUseAfterRevoke ==
  mounted = "mounted" =>
    /\ rendered.inputUrl # Null => rendered.inputUrl \notin revoked
    /\ rendered.outputUrl # Null => rendered.outputUrl \notin revoked

\* ----------------------------------------------------------------- C19
\* C19: a run that ends in "Done" with an output URL read output.mp4 as
\* written by its own exec.
C19_OutputFromOwnExec ==
  [][\A i \in DOMAIN runs :
       (runs[i].pc = "read" /\ runs'[i].pc = "done") => fsOut = i]_vars

\* ----------------------------------------------------------------- C17
\* the steps of one run: writeFile under way -> exec under way ->
\* readFile under way -> done, or failed from any of the three
RunSteps ==
  {<<"write", "exec">>, <<"exec", "read">>, <<"read", "done">>,
   <<"write", "failed">>, <<"exec", "failed">>, <<"read", "failed">>}

Moves(i, from, to) == runs[i].pc = from /\ runs'[i].pc = to

OutputCreated ==
  /\ Len(urls') = Len(urls) + 1
  /\ urls'[Len(urls')].kind = "out"

SelectionResult(f) ==
  /\ st'.file = f
  /\ st'.outputUrl = Null
  /\ st'.progress = 0
  /\ st'.status = ""
  /\ IF f = Null THEN st'.inputUrl = Null
     ELSE /\ st'.inputUrl = Len(urls')
          /\ Len(urls') = Len(urls) + 1
          /\ urls'[Len(urls')].kind = "in"
          /\ st'.inputUrl \notin revoked'
  /\ \A k \in {"scale", "algo", "crf", "preset", "ffmpeg", "processing"} :
       st'[k] = st[k]

Limb == 2^18

\* round to nearest, ties to even, done: the significand d as it is, or,
\* with up, the next one
RoundUp(d, up) ==
  IF ~up THEN d
  ELSE IF d.m3 + 1 < Limb THEN [d EXCEPT !.m3 = @ + 1]
  ELSE IF d.m2 + 1 < Limb THEN [d EXCEPT !.m2 = @ + 1, !.m3 = 0]
  ELSE IF d.m1 + 1 < 2^17 THEN [d EXCEPT !.m1 = @ + 1, !.m2 = 0, !.m3 = 0]
  ELSE [m1 |-> 2^16, m2 |-> 0, m3 |-> 0, exp |-> d.exp + 1]

\* the k with 2^k <= w/h < 2^(k+1)
FloorLog2(w, h) ==
  CHOOSE k \in -12..12 :
    IF k >= 0 THEN h * 2^k <= w /\ w < h * 2^(k + 1)
    ELSE h <= w * 2^(-k) /\ w * 2^(-k) < 2 * h

\* (double) w / h, for 0 < w, h < 2^12: long division, limb by limb
Quotient(w, h) ==
  LET k == FloorLog2(w, h)
      n1 == w * 2^(16 - k)
      n2 == (n1 % h) * Limb
      n3 == (n2 % h) * Limb
      r == n3 % h
      q == [m1 |-> n1 \div h, m2 |-> n2 \div h, m3 |-> n3 \div h,
            exp |-> k]
  IN RoundUp(q, 2 * r > h \/ (2 * r = h /\ q.m3 % 2 = 1))

\* n * d, for an integer 0 < n < 2^11: the exact product has j bits more
\* than the significand holds, and they are rounded off
Times(n, d) ==
  LET t3 == n * d.m3
      t2 == n * d.m2 + t3 \div Limb
      t1 == n * d.m1 + t2 \div Limb
      p2 == t2 % Limb
      p3 == t3 % Limb
      j == CHOOSE i \in 0..11 : 2^(16 + i) <= t1 /\ t1 < 2^(17 + i)
      off == p3 % 2^j
      p == [m1 |-> t1 \div 2^j,
            m2 |-> ((t1 % 2^j) * Limb + p2) \div 2^j,
            m3 |-> ((p2 % 2^j) * Limb + p3) \div 2^j,
            exp |-> d.exp + j]
  IN RoundUp(p, 2 * off > 2^j \/ (2 * off = 2^j /\ p.m3 % 2 = 1))

\* d / 2
Half(d) == [d EXCEPT !.exp = @ - 1]

\* trunc(d), for 0 <= d < 2^30
Trunc(d) ==
  IF d.exp < 0 THEN 0
  ELSE IF d.exp <= 16 THEN d.m1 \div 2^(16 - d.exp)
  ELSE d.m1 * 2^(d.exp - 16) + d.m2 \div 2^(34 - d.exp)

\* the value the engine gives the expression e for the input iw x ih
\* and the evaluated height oh
EvalExpr(e, iw, ih, oh) ==
  CASE e = "iw*2" -> iw * 2
    [] e = "iw*3" -> iw * 3
    [] e = "iw*4" -> iw * 4
    [] e = "ih*2" -> ih * 2
    [] e = "ih*3" -> ih * 3
    [] e = "ih*4" -> ih * 4
    [] e = "trunc(oh*a/2)*2" -> Trunc(Half(Times(oh, Quotient(iw, ih)))) * 2
    [] e = "720" -> 720
    [] e = "1080" -> 1080
    [] e = "3840" -> 3840
    [] e = "2160" -> 2160

\* the output size the filter vf asks of the engine for the input iw x ih
RequestedSize(vf, iw, ih) ==
  LET oh == EvalExpr(vf.h, iw, ih, 0)
  IN [w |-> EvalExpr(vf.w, iw, ih, oh), h |-> oh]

\* the largest even number not above n/d
EvenFloor(n, d) == 2 * (n \div (2 * d))

\* the documented output size of the preset p for the input w x h
DocumentedSize(p, w, h) ==
  CASE p = "2x" -> [w |-> w * 2, h |-> h * 2]
    [] p = "3x" -> [w |-> w * 3, h |-> h * 3]
    [] p = "4x" -> [w |-> w * 4, h |-> h * 4]
    [] p = "720p" -> [w |-> EvenFloor(720 * w, h), h |-> 720]
    [] p = "1080p" -> [w |-> EvenFloor(1080 * w, h), h |-> 1080]
    [] p = "4k" -> [w |-> 3840, h |-> 2160]

\* C15: when a run starts with the input size known, the size its scale
\* filter asks for is the documented one of the chosen preset (k times
\* the input for 2x/3x/4x, the height 720/1080 with the aspect-preserving
\* width rounded down to even for 720p/1080p, 3840x2160 for 4k), and the
\* filter carries the chosen algorithm.
C15_ScaleFormulas ==
  [][StartsRun /\ video # NoVideo =>
       LET vf == runs'[Len(runs')].vf
       IN /\ RequestedSize(vf, video.w, video.h) =
               DocumentedSize(rendered.scale, video.w, video.h)
          /\ vf.flags = rendered.algo]_vars

\* the presets that multiply the input size
Multiplicative == {"2x", "3x", "4x"}

\* the expressions of buildScaleFilter that are plain numbers
Numerals == {"720", "1080", "3840", "2160"}

\* C16: a run started with a multiplicative preset gets a filter with
\* expressions relative to the input size only when the input size is
\* not known; with the input size known its filter names the computed
\* output width and height as numbers (1280x720 at 2x: 2560 and 1440).
C16_AbsoluteWhenKnown ==
  [][StartsRun /\ rendered.scale \in Multiplicative =>
       LET vf == runs'[Len(runs')].vf
       IN IF video = NoVideo
          THEN vf.w \notin Numerals /\ vf.h \notin Numerals
          ELSE vf.w \in Numerals /\ vf.h \in Numerals]_vars

====
